---- MODULE Spec2Model ----
(***************************************************************************)
(* A model of simulation.py: BusinessSimulator.step, run_simulation and    *)
(* process_results, driven the way app.py drives them (construct, run a    *)
(* batch, aggregate).                                                       *)
(*                                                                         *)
(* Python floats are modelled as fixed-point numbers: a real x is the      *)
(* integer x * Scale, and every product by a percentage is rounded down to *)
(* that resolution.  The three random draws of a step are inputs of the    *)
(* step, chosen by the action that takes it.                                *)
(***************************************************************************)
EXTENDS Integers, Sequences, FiniteSets, TLC

VARIABLES
    sim,          \* self: start_cash, start_revenue, start_burn, start_headcount, cac, arpu
    call,         \* the arguments of run_simulation: months, runs, strategy_hiring, strategy_marketing
    results,      \* run_simulation's local `results`: the run histories finished so far
    run_history,  \* run_simulation's local `run_history`
    state,        \* run_simulation's local `state`
    pc,           \* where the caller is: "run_loop", "month_loop", "returned",
                  \* "processed", or "raised" once an exception has ended the batch
    summary,      \* what process_results returned, or NoSummary
    other,        \* the batch an earlier call on the same parameters returned, or NoBatch
    raised,       \* the exception that ended the batch, or NoError
    drawn         \* per run, what the random generator handed to each call of step

vars == <<sim, call, results, run_history, state, pc, summary, other, raised, drawn>>

----------------------------------------------------------------------------
(* Bounds of the model *)

\* fixed-point resolution: units per 1.0 of currency (and per customer)
Scale == 100
\* most months a batch records in all: months * runs
MaxBatch == 3
\* most runs of a batch
MaxRuns == 2
\* most months of each of two batches that are compared
MaxPairMonths == 2
\* most trajectories handed to process_results on its own
MaxAggRuns == 3
\* most months of a trajectory handed to process_results on its own
MaxAggMonths == 2

----------------------------------------------------------------------------
(* Arithmetic helpers *)

Max(a, b) == IF a >= b THEN a ELSE b

\* floor(a * b / c) for a >= 0, computed without leaving 32 bits
MulDiv(a, b, c) == (a \div c) * b + ((a % c) * b) \div c

\* a float product x * (pct / 100), at the model's resolution
Pct(x, pct) == MulDiv(x, pct, 100)

----------------------------------------------------------------------------
(* BusinessSimulator.step *)

hiring_cost_per_head == 5000
salary_per_head == 8000
\* marketing_budget under 'Double'
double_marketing_budget == 5000
\* organic_growth_rate, in percent
organic_growth_rate == 2
\* churn_rate, in percent
base_churn_rate == 5
\* the churn spike of a bad month, in percent
churn_spike == 10
\* cost_shock of a cost spike, in percent
cost_spike_rate == 10

HiringStrategies == {"None", "Moderate", "Aggressive"}
MarketingStrategies == {"Same", "Double"}

\* np.random.uniform(-0.05, 0.05), in percent: the two ends of the interval
\* (a step's revenue and cash are monotone in the demand shock)
DemandShocks == {-5, 5}
\* the three draws of one step: demand_shock, (random() < 0.10), (random() < 0.05)
Draws == [demand_shock : DemandShocks, bad_month : BOOLEAN, cost_spike : BOOLEAN]
\* what a call of step that returns at line 26 takes from the generator: nothing
NoDraw == [demand_shock |-> 0, bad_month |-> FALSE, cost_spike |-> FALSE]
\* what one call of step can take from the generator: lines 25-32 draw nothing
draws_of(current_state) == IF current_state.cash <= 0 THEN {NoDraw} ELSE Draws

\* new_hires with the two branches exchanged
new_hires_swapped(strategy_hiring) ==
    IF strategy_hiring = "Aggressive" THEN 1
    ELSE IF strategy_hiring = "Moderate" THEN 2
    ELSE 0

\* new_hires that hires one for every label but None
new_hires_else_moderate(strategy_hiring) ==
    IF strategy_hiring = "Aggressive" THEN 2
    ELSE IF strategy_hiring = "None" THEN 0
    ELSE 1

\* lines 39-43
new_hires(strategy_hiring) ==
    IF strategy_hiring = "Aggressive" THEN 2
    ELSE IF strategy_hiring = "Moderate" THEN 1
    ELSE 0

marketing_budget(strategy_marketing) ==
    IF strategy_marketing = "Double" THEN double_marketing_budget * Scale ELSE 0

\* lines 57-91: next month's revenue from the unit-economics model
next_revenue(self, revenue, strategy_marketing, draw) ==
    LET cac == Max(self.cac, 1)
        paid_customers == marketing_budget(strategy_marketing) \div cac
        current_customers == revenue \div Max(self.arpu, 1)
        organic_customers == Pct(current_customers, organic_growth_rate)
        total_new_customers ==
            Pct(paid_customers + organic_customers, 100 + draw.demand_shock)
        churn_rate ==
            base_churn_rate + (IF draw.bad_month THEN churn_spike ELSE 0)
        churned_customers == Pct(current_customers, churn_rate)
        next_customers == current_customers + total_new_customers - churned_customers
    IN  next_customers * self.arpu

\* next_burn without line 46: the salaries of the new hires are not burnt
next_burn_nosalary(burn, strategy_hiring, strategy_marketing, draw) ==
    LET spent == burn + marketing_budget(strategy_marketing)
        cost_shock == IF draw.cost_spike THEN cost_spike_rate ELSE 0
    IN  Pct(spent, 100 + cost_shock)

\* next_burn with line 88 as cost_shock = 1.10
next_burn_doubled(burn, strategy_hiring, strategy_marketing, draw) ==
    LET hired == burn + new_hires(strategy_hiring) * salary_per_head * Scale
        spent == hired + marketing_budget(strategy_marketing)
        cost_shock == IF draw.cost_spike THEN 100 + cost_spike_rate ELSE 0
    IN  Pct(spent, 100 + cost_shock)

\* next_burn with line 93 as burn * (1 - cost_shock)
next_burn_cut(burn, strategy_hiring, strategy_marketing, draw) ==
    LET hired == burn + new_hires(strategy_hiring) * salary_per_head * Scale
        spent == hired + marketing_budget(strategy_marketing)
        cost_shock == IF draw.cost_spike THEN cost_spike_rate ELSE 0
    IN  Pct(spent, 100 - cost_shock)

\* lines 36-55 and 85-93: next month's burn
next_burn(burn, strategy_hiring, strategy_marketing, draw) ==
    LET hired == burn + new_hires(strategy_hiring) * salary_per_head * Scale
        spent == hired + marketing_budget(strategy_marketing)
        cost_shock == IF draw.cost_spike THEN cost_spike_rate ELSE 0
    IN  Pct(spent, 100 + cost_shock)

\* settle without line 99: a dead month keeps the cash it computed
settle_unclamped(cash, revenue, burn, headcount) ==
    LET c == cash + revenue - burn
    IN  [cash |-> c, revenue |-> revenue, burn |-> burn,
         headcount |-> headcount, alive |-> c > 0]

\* settle that dies only below zero: a month ending on cash 0 stays alive
settle_alive_at_zero(cash, revenue, burn, headcount) ==
    LET c == cash + revenue - burn
    IN  IF c < 0
        THEN [cash |-> 0, revenue |-> revenue, burn |-> burn,
              headcount |-> headcount, alive |-> FALSE]
        ELSE [cash |-> c, revenue |-> revenue, burn |-> burn,
              headcount |-> headcount, alive |-> TRUE]

\* lines 95-108: the cash update and the death clamp
settle(cash, revenue, burn, headcount) ==
    LET c == cash + revenue - burn
    IN  IF c <= 0
        THEN [cash |-> 0, revenue |-> revenue, burn |-> burn,
              headcount |-> headcount, alive |-> FALSE]
        ELSE [cash |-> c, revenue |-> revenue, burn |-> burn,
              headcount |-> headcount, alive |-> TRUE]

\* step that records the month's hires only when the month is survived
step_hire_survivors(self, current_state, strategy_hiring, strategy_marketing, draw) ==
    IF current_state.cash <= 0
    THEN [cash |-> 0, revenue |-> 0, burn |-> 0,
          headcount |-> current_state.headcount, alive |-> FALSE]
    ELSE LET s == settle(current_state.cash,
                    next_revenue(self, current_state.revenue, strategy_marketing, draw),
                    next_burn(current_state.burn, strategy_hiring, strategy_marketing, draw),
                    current_state.headcount + new_hires(strategy_hiring))
         IN  IF s.alive THEN s
             ELSE [s EXCEPT !.headcount = current_state.headcount]

step(self, current_state, strategy_hiring, strategy_marketing, draw) ==
    IF current_state.cash <= 0
    THEN [cash |-> 0, revenue |-> 0, burn |-> 0,
          headcount |-> current_state.headcount, alive |-> FALSE]
    ELSE settle(current_state.cash,
                next_revenue(self, current_state.revenue, strategy_marketing, draw),
                next_burn(current_state.burn, strategy_hiring, strategy_marketing, draw),
                current_state.headcount + new_hires(strategy_hiring))

----------------------------------------------------------------------------
(* BusinessSimulator.__init__ and the inputs of a batch *)

BusinessSimulator(start_cash, monthly_revenue, monthly_burn, team_size, cac, arpu) ==
    [start_cash |-> start_cash * Scale, start_revenue |-> monthly_revenue * Scale,
     start_burn |-> monthly_burn * Scale, start_headcount |-> team_size,
     cac |-> cac, arpu |-> arpu]

\* the simulator of test_simulation.py's setUp
FixtureSim == BusinessSimulator(100000, 10000, 5000, 5, 50, 100)
\* test_death_condition's state as starting parameters
DeathSim == BusinessSimulator(100, 0, 5000, 5, 50, 100)
\* a company whose first months are decided by the shocks and by the hiring
TightSim == BusinessSimulator(1000, 30000, 20000, 3, 50, 100)
\* no cash at all: app.py's number_input has no minimum
BrokeSim == BusinessSimulator(0, 10000, 5000, 5, 50, 100)
\* CAC and ARPU of zero
FreeSim == BusinessSimulator(6000, 10000, 5000, 5, 0, 0)

\* a negative starting value: the constructor stores whatever it is given
OverdrawnSim == BusinessSimulator(-100, 10000, 5000, 5, 50, 100)
\* a company whose first month, without a cost spike, ends on cash exactly 0
EvenSim == BusinessSimulator(5000, 0, 5000, 5, 50, 100)

Sims == {FixtureSim, DeathSim, TightSim, BrokeSim, FreeSim, OverdrawnSim, EvenSim}

\* months and runs as app.py's caller may pass them: range() of a number <= 0 is empty
Calls ==
    {c \in [months : -1..MaxBatch, runs : -1..MaxRuns,
            strategy_hiring : HiringStrategies,
            strategy_marketing : MarketingStrategies] :
        Max(c.months, 0) * Max(c.runs, 0) <= MaxBatch}

NoSummary == [months |-> <<>>]
NoBatch == [strategy_hiring |-> "None", results |-> <<>>]
NoState == [cash |-> 0, revenue |-> 0, burn |-> 0, headcount |-> 0, alive |-> FALSE]
NoError == "none"

----------------------------------------------------------------------------
(* BusinessSimulator.run_simulation *)

\* lines 114-120
initial_state(self) ==
    [cash |-> self.start_cash, revenue |-> self.start_revenue,
     burn |-> self.start_burn, headcount |-> self.start_headcount, alive |-> TRUE]

Init ==
    /\ sim \in Sims
    /\ call \in Calls
    /\ results = <<>>
    /\ run_history = <<>>
    /\ state = NoState
    /\ pc = "run_loop"
    /\ summary = NoSummary
    /\ other = NoBatch
    /\ raised = NoError
    /\ drawn = <<>>

\* RunStart that keeps the state the previous run ended in
RunStart_carry ==
    /\ pc = "run_loop"
    /\ Len(results) < call.runs
    /\ state' = IF results = <<>> THEN initial_state(sim) ELSE state
    /\ run_history' = <<>>
    /\ pc' = "month_loop"
    /\ drawn' = Append(drawn, <<>>)
    /\ UNCHANGED <<sim, call, results, summary, other, raised>>

\* for _ in range(runs): a fresh state and an empty run_history
RunStart ==
    /\ pc = "run_loop"
    /\ Len(results) < call.runs
    /\ state' = initial_state(sim)
    /\ run_history' = <<>>
    /\ pc' = "month_loop"
    /\ drawn' = Append(drawn, <<>>)
    /\ UNCHANGED <<sim, call, results, summary, other, raised>>

\* MonthStep that writes the new headcount back into the simulator
MonthStep_writeback ==
    /\ pc = "month_loop"
    /\ Len(run_history) < call.months
    /\ state.alive
    /\ \E draw \in draws_of(state) :
         LET s == step(sim, state, call.strategy_hiring, call.strategy_marketing, draw)
         IN  /\ state' = s
             /\ run_history' = Append(run_history, s)
             /\ sim' = [sim EXCEPT !.start_headcount = s.headcount]
             /\ drawn' = [drawn EXCEPT ![Len(drawn)] = Append(@, draw)]
    /\ UNCHANGED <<call, results, pc, summary, other, raised>>

\* a month of a live company: lines 130-131
MonthStep ==
    /\ pc = "month_loop"
    /\ Len(run_history) < call.months
    /\ state.alive
    /\ \E draw \in draws_of(state) :
         LET s == step(sim, state, call.strategy_hiring, call.strategy_marketing, draw)
         IN  /\ state' = s
             /\ run_history' = Append(run_history, s)
             /\ drawn' = [drawn EXCEPT ![Len(drawn)] = Append(@, draw)]
    /\ UNCHANGED <<sim, call, results, pc, summary, other, raised>>

\* MonthDead that calls step on the dead state instead of copying it
MonthDead_restep ==
    /\ pc = "month_loop"
    /\ Len(run_history) < call.months
    /\ ~state.alive
    /\ LET s == step(sim, state, call.strategy_hiring, call.strategy_marketing, NoDraw)
       IN  /\ state' = s
           /\ run_history' = Append(run_history, s)
    /\ drawn' = [drawn EXCEPT ![Len(drawn)] = Append(@, NoDraw)]
    /\ UNCHANGED <<sim, call, results, pc, summary, other, raised>>

\* MonthDead that breaks out of the month loop
MonthDead_break ==
    /\ pc = "month_loop"
    /\ Len(run_history) < call.months
    /\ ~state.alive
    /\ results' = Append(results, run_history)
    /\ pc' = "run_loop"
    /\ UNCHANGED <<sim, call, run_history, state, summary, other, raised, drawn>>

\* MonthDead that fills the month with the starting state
MonthDead_refill ==
    /\ pc = "month_loop"
    /\ Len(run_history) < call.months
    /\ ~state.alive
    /\ run_history' = Append(run_history, initial_state(sim))
    /\ UNCHANGED <<sim, call, results, state, pc, summary, other, raised, drawn>>

\* a month of a dead company: lines 125-128
MonthDead ==
    /\ pc = "month_loop"
    /\ Len(run_history) < call.months
    /\ ~state.alive
    /\ run_history' = Append(run_history, state)
    /\ UNCHANGED <<sim, call, results, state, pc, summary, other, raised, drawn>>

\* line 133
RunEnd ==
    /\ pc = "month_loop"
    /\ Len(run_history) >= call.months
    /\ results' = Append(results, run_history)
    /\ pc' = "run_loop"
    /\ UNCHANGED <<sim, call, run_history, state, summary, other, raised, drawn>>

\* line 135
Return ==
    /\ pc = "run_loop"
    /\ Len(results) >= call.runs
    /\ pc' = "returned"
    /\ UNCHANGED <<sim, call, results, run_history, state, summary, other, raised, drawn>>

----------------------------------------------------------------------------
(* BusinessSimulator.process_results *)

RECURSIVE insert(_, _)
insert(x, sorted) ==
    IF sorted = <<>> THEN <<x>>
    ELSE IF x <= Head(sorted) THEN <<x>> \o sorted
    ELSE <<Head(sorted)>> \o insert(x, Tail(sorted))

RECURSIVE sort(_)
sort(a) == IF a = <<>> THEN <<>> ELSE insert(Head(a), sort(Tail(a)))

Min(a, b) == IF a <= b THEN a ELSE b

\* np.percentile(a, q), linear interpolation: the value at the virtual index
\* q/100 * (n - 1) of the sorted sample, rounded down to the model's resolution
percentile(a, q) ==
    LET n == Len(a)
        s == sort(a)
        pos == q * (n - 1)
        lo == pos \div 100
        frac == pos % 100
        below == s[lo + 1]
        above == s[Min(lo + 1, n - 1) + 1]
    IN  below + MulDiv(above - below, frac, 100)

\* median that takes the upper middle of an even sample
median_upper(a) == sort(a)[Len(a) \div 2 + 1]

\* np.median(a): the middle of the sorted sample, or the mean of the middle two
median(a) ==
    LET n == Len(a)
        s == sort(a)
    IN  IF n % 2 = 1 THEN s[n \div 2 + 1]
        ELSE (s[n \div 2] + s[n \div 2 + 1]) \div 2

RECURSIVE sum(_)
\* Python's sum() of a list of booleans
sum(flags) ==
    IF flags = <<>> THEN 0
    ELSE (IF Head(flags) THEN 1 ELSE 0) + sum(Tail(flags))

\* cash_matrix filled from step['revenue']
cash_matrix_revenue(batch) ==
    [i \in 1..Len(batch) |-> [t \in 1..Len(batch[1]) |-> batch[i][t].revenue]]

\* lines 152-158
cash_matrix(batch) ==
    [i \in 1..Len(batch) |-> [t \in 1..Len(batch[1]) |-> batch[i][t].cash]]

\* one column of the matrix: what axis=0 reduces
column(matrix, t) == [i \in 1..Len(matrix) |-> matrix[i][t]]

\* alive_final read from run[0]
alive_final_first(batch) == [i \in 1..Len(batch) |-> batch[i][1].alive]

\* lines 160-161
alive_final(batch) == [i \in 1..Len(batch) |-> batch[i][Len(batch[i])].alive]
final_cash(batch) == [i \in 1..Len(batch) |-> batch[i][Len(batch[i])].cash]

\* line 168: sum(alive_final) / runs, kept as the fraction it is
survival_rate(batch) == [num |-> sum(alive_final(batch)), den |-> Len(batch)]

process_results(batch) ==
    LET months == Len(batch[1])
        matrix == cash_matrix(batch)
    IN  [median_cash |-> [t \in 1..months |-> median(column(matrix, t))],
         p10_cash |-> [t \in 1..months |-> percentile(column(matrix, t), 10)],
         p90_cash |-> [t \in 1..months |-> percentile(column(matrix, t), 90)],
         survival_rate |-> survival_rate(batch),
         final_cash |-> final_cash(batch),
         months |-> [t \in 1..months |-> t]]

\* the exception process_results ends with: results[0] at line 149 of an empty
\* batch, run[-1] at line 160 of an empty run
process_results_error(batch) ==
    IF batch = <<>> THEN "IndexError"
    ELSE IF \E i \in 1..Len(batch) : batch[i] = <<>> THEN "IndexError"
    ELSE NoError

\* run_simulation returns and app.py hands the trajectories to process_results
ProcessResults ==
    /\ pc = "returned"
    /\ raised' = process_results_error(results)
    /\ IF process_results_error(results) = NoError
       THEN summary' = process_results(results) /\ pc' = "processed"
       ELSE summary' = summary /\ pc' = "raised"
    /\ UNCHANGED <<sim, call, results, run_history, state, other, drawn>>

Next == RunStart \/ MonthStep \/ MonthDead \/ RunEnd \/ Return \/ ProcessResults

Spec == Init /\ [][Next]_vars

----------------------------------------------------------------------------
(* process_results on its own: any batch of equal-length trajectories *)

AggCash == {1000 * Scale, 2500 * Scale}

AggStates ==
    {[cash |-> 0, revenue |-> 0, burn |-> 0, headcount |-> 5, alive |-> FALSE]}
    \cup {[cash |-> c, revenue |-> 0, burn |-> 0, headcount |-> 5, alive |-> TRUE] :
            c \in AggCash}

\* the trajectories run_simulation can shape: a dead month is followed by dead months
AggTrajectories(months) ==
    {h \in [1..months -> AggStates] :
        \A t \in 1..months - 1 : ~h[t].alive => ~h[t + 1].alive}

InitAgg ==
    /\ sim = FixtureSim
    /\ \E runs \in 1..MaxAggRuns, months \in 1..MaxAggMonths :
         /\ call = [months |-> months, runs |-> runs,
                    strategy_hiring |-> "None", strategy_marketing |-> "Same"]
         /\ results \in [1..runs -> AggTrajectories(months)]
    /\ run_history = <<>>
    /\ state = NoState
    /\ pc = "returned"
    /\ summary = NoSummary
    /\ other = NoBatch
    /\ raised = NoError
    /\ drawn = <<>>

NextAgg == ProcessResults

SpecAgg == InitAgg /\ [][NextAgg]_vars

----------------------------------------------------------------------------
(* Two batches on the same parameters: app.py's user runs the simulation    *)
(* with Aggressive hiring, changes the hiring strategy and runs it again;   *)
(* the caller keeps the first batch.  The batches share no state, so their  *)
(* order does not matter.                                                    *)

\* a second BusinessSimulator(...).run_simulation(...) with another hiring strategy
SecondBatch ==
    /\ pc = "returned"
    /\ other = NoBatch
    /\ \E hiring \in HiringStrategies \ {call.strategy_hiring} :
         call' = [call EXCEPT !.strategy_hiring = hiring]
    /\ other' = [strategy_hiring |-> call.strategy_hiring, results |-> results]
    /\ results' = <<>>
    /\ run_history' = <<>>
    /\ state' = NoState
    /\ pc' = "run_loop"
    /\ drawn' = <<>>
    /\ UNCHANGED <<sim, summary, raised>>

\* the companies compared start with cash: with none, no batch ever hires
InitPair ==
    /\ sim \in {s \in Sims : s.start_cash > 0}
    /\ \E months \in 1..MaxPairMonths, marketing \in MarketingStrategies :
         call = [months |-> months, runs |-> 1,
                 strategy_hiring |-> "Aggressive", strategy_marketing |-> marketing]
    /\ results = <<>>
    /\ run_history = <<>>
    /\ state = NoState
    /\ pc = "run_loop"
    /\ summary = NoSummary
    /\ other = NoBatch
    /\ raised = NoError
    /\ drawn = <<>>

NextPair == RunStart \/ MonthStep \/ MonthDead \/ RunEnd \/ Return \/ SecondBatch

SpecPair == InitPair /\ [][NextPair]_vars

----------------------------------------------------------------------------
(* What the trajectories record *)

\* every trajectory recorded so far: the finished runs and the run in progress
Recorded == {results[i] : i \in 1..Len(results)} \cup {run_history}

\* the state a month's record was produced from
Before(h, t) == IF t = 1 THEN initial_state(sim) ELSE h[t - 1]

\* the months whose record came out of the engine's full computation
Stepped(h, t) == Before(h, t).alive /\ Before(h, t).cash > 0

----------------------------------------------------------------------------
(* C1 *)

\* C1: in every recorded trajectory, a month with alive = FALSE is followed
\* only by months with alive = FALSE and cash = 0.
C1_AbsorbingDeath ==
    \A h \in Recorded : \A t, u \in 1..Len(h) :
        (t < u /\ ~h[t].alive) => (~h[u].alive /\ h[u].cash = 0)

\* a returned run that died in the engine's clamp at month 1 and has a later month
C1_Witness ==
    /\ pc = "returned"
    /\ \E i \in 1..Len(results) :
         /\ Len(results[i]) >= 2
         /\ ~results[i][1].alive
         /\ results[i][1].burn > 0

----------------------------------------------------------------------------
(* C2 *)

\* C2: in every recorded trajectory, a month with alive = FALSE is followed
\* only by months with cash = 0, revenue = 0, burn = 0 and alive = FALSE.
C2_DeadMonthsZeroed ==
    \A h \in Recorded : \A t, u \in 1..Len(h) :
        (t < u /\ ~h[t].alive) =>
            (h[u].cash = 0 /\ h[u].revenue = 0 /\ h[u].burn = 0 /\ ~h[u].alive)

----------------------------------------------------------------------------
(* C3 *)

\* C3: every recorded cash is >= 0, and a step whose cash + revenue' - burn'
\* is below zero records cash = 0 and alive = FALSE in that same month.
C3_CashNeverNegative ==
    \A h \in Recorded : \A t \in 1..Len(h) :
        /\ h[t].cash >= 0
        /\ (Stepped(h, t) /\ Before(h, t).cash + h[t].revenue - h[t].burn < 0)
              => (h[t].cash = 0 /\ ~h[t].alive)

\* a month whose computed cash was below zero, after a month that was survived
C3_Witness ==
    \E h \in Recorded : \E t \in 2..Len(h) :
        /\ Stepped(h, t)
        /\ h[t - 1].cash + h[t].revenue - h[t].burn < 0

----------------------------------------------------------------------------
(* C4 *)

\* the first recorded month of every run is dead with no cash
FirstMonthDead ==
    \A h \in Recorded : Len(h) >= 1 => (~h[1].alive /\ h[1].cash = 0)

\* C4 as claimed: from {cash 100, revenue 0, burn 5000, headcount 5} with
\* CAC 50 and ARPU 100, one step is dead with cash 0 under every strategy.
C4_DeathFixtureAnyStrategy == sim = DeathSim => FirstMonthDead

\* C4 as amended: the same, for every strategy pair but hiring None with
\* marketing Double.
C4_DeathFixtureButNoneDouble ==
    (/\ sim = DeathSim
     /\ ~(call.strategy_hiring = "None" /\ call.strategy_marketing = "Double"))
        => FirstMonthDead

\* the death fixture stepped under Moderate hiring and Double marketing
C4_Witness ==
    /\ sim = DeathSim
    /\ call.strategy_hiring = "Moderate"
    /\ call.strategy_marketing = "Double"
    /\ Len(run_history) >= 1
    /\ run_history[1].revenue = 10500 * Scale

----------------------------------------------------------------------------
(* C5 *)

\* C5: from the fixture {cash 100000, revenue 10000, burn 5000, headcount 5},
\* CAC 50, ARPU 100, one step under None and Same is alive with
\* 100000 < cash < 110000, whatever the three draws.
C5_FixtureStepInRange ==
    (/\ sim = FixtureSim
     /\ call.strategy_hiring = "None"
     /\ call.strategy_marketing = "Same")
        => \A h \in Recorded : Len(h) >= 1 =>
               /\ h[1].alive
               /\ 100000 * Scale < h[1].cash
               /\ h[1].cash < 110000 * Scale

\* the worst month of the fixture: demand -5%, a bad month and a cost spike
C5_Witness ==
    /\ sim = FixtureSim
    /\ call.strategy_hiring = "None"
    /\ call.strategy_marketing = "Same"
    /\ Len(run_history) >= 1
    /\ run_history[1].cash = 103190 * Scale

----------------------------------------------------------------------------
(* C6 *)

\* headcount at month 1 is the starting headcount plus 2, 1 or 0
FirstMonthHeadcount ==
    \A h \in Recorded : Len(h) >= 1 =>
        h[1].headcount = sim.start_headcount
            + (CASE call.strategy_hiring = "Aggressive" -> 2
                 [] call.strategy_hiring = "Moderate" -> 1
                 [] OTHER -> 0)

\* C6 as claimed: for every batch and run, headcount at month 1 is the start
\* + 2 under Aggressive, + 1 under Moderate, + 0 under None.
C6_FirstMonthHeadcountAlways == FirstMonthHeadcount

\* C6 as amended: the same, for every batch whose starting cash is > 0.
C6_FirstMonthHeadcountWithCash == sim.start_cash > 0 => FirstMonthHeadcount

\* a company that hires two and dies in the same first month
C6_Witness ==
    /\ sim.start_cash > 0
    /\ call.strategy_hiring = "Aggressive"
    /\ Len(run_history) >= 1
    /\ ~run_history[1].alive
    /\ run_history[1].headcount = sim.start_headcount + 2

----------------------------------------------------------------------------
(* C7 *)

final_headcount(h) == h[Len(h)].headcount

\* the months of a run in which the engine was invoked
engine_months(h) == Cardinality({t \in 1..Len(h) : Before(h, t).alive})

\* both batches have returned
BothReturned == pc = "returned" /\ other # NoBatch

\* the runs of the Aggressive batch, when one of the two batches is Aggressive
AggressiveRuns ==
    IF call.strategy_hiring = "Aggressive" THEN results
    ELSE IF other.strategy_hiring = "Aggressive" THEN other.results
    ELSE <<>>

\* the runs and the hiring of the batch compared with the Aggressive one
ComparedRuns == IF call.strategy_hiring = "Aggressive" THEN other.results ELSE results
ComparedHiring ==
    IF call.strategy_hiring = "Aggressive" THEN other.strategy_hiring
    ELSE call.strategy_hiring

\* C7 as claimed: of two runs of the same length from the same parameters and
\* marketing, the Aggressive one ends with strictly more heads than the None
\* or Moderate one, whatever the draws.
C7_AggressiveEndsAhead ==
    BothReturned =>
        \A a \in 1..Len(AggressiveRuns), b \in 1..Len(ComparedRuns) :
            final_headcount(AggressiveRuns[a]) > final_headcount(ComparedRuns[b])

\* C7 as amended: with starting cash > 0 the Aggressive run ends strictly
\* ahead of every None run, and ahead of a Moderate run exactly when twice
\* its engine months exceed the Moderate run's engine months.
C7_AggressiveAheadWhileStepped ==
    (BothReturned /\ sim.start_cash > 0) =>
        \A a \in 1..Len(AggressiveRuns), b \in 1..Len(ComparedRuns) :
            LET ahead == final_headcount(AggressiveRuns[a])
                            > final_headcount(ComparedRuns[b])
            IN  IF ComparedHiring = "None" THEN ahead
                ELSE ahead <=> (2 * engine_months(AggressiveRuns[a])
                                    > engine_months(ComparedRuns[b]))

\* an Aggressive run dead at month 1 against a Moderate run alive at month 1
C7_Witness ==
    /\ BothReturned
    /\ sim.start_cash > 0
    /\ ComparedHiring = "Moderate"
    /\ \E a \in 1..Len(AggressiveRuns), b \in 1..Len(ComparedRuns) :
         /\ Len(AggressiveRuns[a]) >= 2
         /\ ~AggressiveRuns[a][1].alive
         /\ ComparedRuns[b][1].alive

----------------------------------------------------------------------------
(* C8 *)

\* C8: an engine step from cash > 0 and burn >= 0 leaves burn at least the
\* incoming burn plus 8000 per hire: burn grows strictly on an Aggressive or
\* Moderate step and never shrinks across the alive months of a run.
C8_BurnGrowsWithHires ==
    \A h \in Recorded : \A t \in 1..Len(h) :
        (Stepped(h, t) /\ Before(h, t).burn >= 0) =>
            LET hires == CASE call.strategy_hiring = "Aggressive" -> 2
                           [] call.strategy_hiring = "Moderate" -> 1
                           [] OTHER -> 0
            IN  /\ h[t].burn >= Before(h, t).burn + hires * 8000 * Scale
                /\ hires > 0 => h[t].burn > Before(h, t).burn
                /\ h[t].burn >= Before(h, t).burn

\* a second alive month of a Moderate run with a cost spike on top of the hire
C8_Witness ==
    /\ call.strategy_hiring = "Moderate"
    /\ Len(run_history) >= 2
    /\ run_history[2].alive
    /\ run_history[2].burn > run_history[1].burn + 8000 * Scale

----------------------------------------------------------------------------
(* C9 *)

\* C9: the survival rate process_results returns lies in [0, 1] and is the
\* number of trajectories alive at the final month over the number of
\* trajectories.
C9_SurvivalRate ==
    pc = "processed" =>
        /\ summary.survival_rate.den = Len(results)
        /\ summary.survival_rate.num =
               Cardinality({i \in 1..Len(results) : results[i][call.months].alive})
        /\ 0 <= summary.survival_rate.num
        /\ summary.survival_rate.num <= summary.survival_rate.den

\* three two-month trajectories, all alive at month 1 and one alive at the end
C9_Witness ==
    /\ pc = "processed"
    /\ Len(results) = 3
    /\ call.months = 2
    /\ \A i \in 1..3 : results[i][1].alive
    /\ summary.survival_rate = [num |-> 1, den |-> 3]

----------------------------------------------------------------------------
(* C10 *)

\* C10: for every month t, p10_cash[t] <= median_cash[t] <= p90_cash[t], the
\* three being the 10th, 50th and 90th linear-interpolation percentiles of
\* column t of the cash matrix.
C10_PercentilesOrdered ==
    pc = "processed" =>
        \A t \in 1..call.months :
            LET col == [i \in 1..Len(results) |-> results[i][t].cash]
            IN  /\ summary.p10_cash[t] <= summary.median_cash[t]
                /\ summary.median_cash[t] <= summary.p90_cash[t]
                /\ summary.p10_cash[t] = percentile(col, 10)
                /\ summary.median_cash[t] = percentile(col, 50)
                /\ summary.p90_cash[t] = percentile(col, 90)

\* a month whose three statistics differ and fall between the sample's values
C10_Witness ==
    /\ pc = "processed"
    /\ Len(results) = 3
    /\ \E t \in 1..call.months :
         /\ summary.p10_cash[t] < summary.median_cash[t]
         /\ summary.median_cash[t] < summary.p90_cash[t]
         /\ summary.p10_cash[t] \notin {results[i][t].cash : i \in 1..3}
         /\ summary.p90_cash[t] \notin {results[i][t].cash : i \in 1..3}

----------------------------------------------------------------------------
(* C11 *)

\* C11: process_results of a single trajectory of length 1 returns median,
\* p10 and p90 equal to its sole cash value and a survival rate of 0 or 1.
C11_SingleTrajectory ==
    (pc = "processed" /\ Len(results) = 1 /\ Len(results[1]) = 1) =>
        /\ summary.median_cash = <<results[1][1].cash>>
        /\ summary.p10_cash = <<results[1][1].cash>>
        /\ summary.p90_cash = <<results[1][1].cash>>
        /\ summary.survival_rate.den = 1
        /\ summary.survival_rate.num \in {0, 1}

\* one live month with cash 2500 summarised
C11_Witness ==
    /\ pc = "processed"
    /\ Len(results) = 1
    /\ Len(results[1]) = 1
    /\ results[1][1].cash = 2500 * Scale
    /\ summary.median_cash = <<2500 * Scale>>
    /\ summary.survival_rate = [num |-> 1, den |-> 1]

----------------------------------------------------------------------------
(* C12 *)

\* the batch handed to process_results has no run, or a run with no month
EmptyBatch == results = <<>> \/ \E i \in 1..Len(results) : results[i] = <<>>

\* C12: aggregating an empty batch fails with an explicit error of its own,
\* not with a division by zero or an index out of range, and returns no
\* summary.
C12_EmptyBatchFailsExplicitly ==
    (pc \in {"processed", "raised"} /\ EmptyBatch) =>
        /\ raised \notin {NoError, "IndexError", "ZeroDivisionError"}
        /\ summary = NoSummary

----------------------------------------------------------------------------
(* C13 *)

\* a negative starting value, or months or runs that are not positive
InvalidConfiguration ==
    \/ sim.start_cash < 0
    \/ sim.start_revenue < 0
    \/ sim.start_burn < 0
    \/ sim.start_headcount < 0
    \/ call.months <= 0
    \/ call.runs <= 0

\* C13: a simulator built with a negative starting value, or run_simulation
\* called with months <= 0 or runs <= 0, never returns trajectories.
C13_InvalidConfigurationRejected ==
    InvalidConfiguration => pc \notin {"returned", "processed"}

----------------------------------------------------------------------------
(* The draws behind the records *)

\* the trajectory of run i: a finished run, or the run in progress
History(i) == IF i <= Len(results) THEN results[i] ELSE run_history

\* the recorded months of run i that came out of a call of step
Called(i) == 1..Len(drawn[i])

----------------------------------------------------------------------------
(* C14 *)

\* self with CAC and ARPU at their floor of 1.0 wherever they are <= 0
Floored(self) == [self EXCEPT !.cac = Max(self.cac, 1), !.arpu = Max(self.arpu, 1)]

\* C14: a step on a simulator whose CAC or ARPU is <= 0 raises nothing and
\* computes what the same step computes with that parameter at 1.0.
C14_StepAsIfFloored ==
    (sim.cac <= 0 \/ sim.arpu <= 0) =>
        \A i \in 1..Len(drawn) : \A t \in Called(i) :
            History(i)[t] = step(Floored(sim), Before(History(i), t),
                                 call.strategy_hiring, call.strategy_marketing,
                                 drawn[i][t])

----------------------------------------------------------------------------
(* C15 *)

RECURSIVE replay(_, _, _, _, _)
\* the trajectory that the parameters, the call and a sequence of draws
\* determine: months first_month..c.months of a run that is in current_state
replay(self, c, current_state, draws, first_month) ==
    IF first_month > c.months THEN <<>>
    ELSE IF ~current_state.alive
    THEN <<current_state>> \o replay(self, c, current_state, draws, first_month + 1)
    ELSE IF draws = <<>> THEN <<>>
    ELSE LET s == step(self, current_state, c.strategy_hiring,
                       c.strategy_marketing, Head(draws))
         IN  <<s>> \o replay(self, c, s, Tail(draws), first_month + 1)

\* the batch that the parameters, the call and the draws of each run determine
replayed == [i \in 1..Len(results) |-> replay(sim, call, initial_state(sim), drawn[i], 1)]

\* C15: the trajectories of a batch are a function of the simulator's
\* parameters, the call's arguments and the draws handed out, and the summary
\* is a function of the trajectories; two executions that agree on these
\* return the same trajectories and the same summary.
C15_DeterminedByDraws ==
    /\ pc \in {"returned", "processed", "raised"} => results = replayed
    /\ pc = "processed" => summary = process_results(results)

\* two runs of one batch that differ only by their draws
C15_Witness ==
    /\ pc = "processed"
    /\ Len(results) = 2
    /\ drawn[1] # drawn[2]
    /\ results[1] # results[2]
    /\ summary.median_cash # <<results[1][1].cash>>

----------------------------------------------------------------------------
(* C16 *)

\* run i called step once in each month that began alive, and in no other
OncePerLiveMonth(i) == Len(drawn[i]) = engine_months(History(i))

\* every month of run i that began dead records the state it began with
DeadMonthsCopied(i) ==
    \A t \in 1..Len(History(i)) :
        ~Before(History(i), t).alive => History(i)[t] = Before(History(i), t)

\* C16 as stated: in each run step is called, and draws its shocks, once for
\* each month up to and including the first dead one and never after, and the
\* later months copy the state of the month of death (read on simulators
\* whose starting values are all >= 0).
C16_StepDrawsOncePerMonth ==
    ~InvalidConfiguration =>
    \A i \in 1..Len(drawn) :
        /\ OncePerLiveMonth(i)
        /\ \A t \in Called(i) : drawn[i][t] \in Draws
        /\ DeadMonthsCopied(i)

\* C16: in each run step is called once for each month up to and including
\* the first dead one and never after; a call draws its shocks exactly when the
\* cash it is given is positive; the later months copy the state of the month
\* of death.
C16_StepOncePerMonth ==
    \A i \in 1..Len(drawn) :
        /\ OncePerLiveMonth(i)
        /\ \A t \in Called(i) : drawn[i][t] \in draws_of(Before(History(i), t))
        /\ \A t \in Called(i) : (drawn[i][t] \in Draws) <=> Before(History(i), t).cash > 0
        /\ DeadMonthsCopied(i)

\* a run of three months that dies in the second: two calls, one copy
C16_Witness ==
    /\ pc = "returned"
    /\ call.months = 3
    /\ Len(results) = 1
    /\ Len(drawn[1]) = 2
    /\ results[1][1].alive
    /\ ~results[1][2].alive
    /\ results[1][3] = results[1][2]

----------------------------------------------------------------------------
(* C17 *)

\* C17: for months >= 1 and runs >= 1, run_simulation returns runs
\* trajectories of months states each, whenever the run died.
C17_ShapeOfBatch ==
    (pc = "returned" /\ call.months >= 1 /\ call.runs >= 1) =>
        /\ Len(results) = call.runs
        /\ \A i \in 1..Len(results) : Len(results[i]) = call.months

\* a returned run of three months that was dead from month 1 on
C17_Witness ==
    /\ pc = "returned"
    /\ call.months = 3
    /\ Len(results) = 1
    /\ Len(results[1]) = 3
    /\ ~results[1][1].alive

----------------------------------------------------------------------------
(* C18 *)

\* a is an initial segment of b
prefix(a, b) == Len(a) <= Len(b) /\ \A k \in 1..Len(a) : b[k] = a[k]

\* C18: no step of a batch changes the simulator's parameters; the state
\* handed to step and the states already appended stay in the trajectory as
\* they were; finished trajectories are never changed; so every run starts
\* from the same initial state.
C18_Frame ==
    [][/\ sim' = sim
       /\ prefix(results, results')
       /\ run_history' # run_history =>
             \/ prefix(run_history, run_history') /\ Len(run_history') = Len(run_history) + 1
             \/ run_history' = <<>> /\ pc = "run_loop"
       /\ (pc = "run_loop" /\ pc' = "month_loop") =>
             /\ run_history' = <<>>
             /\ state' = initial_state(sim)
       /\ results' # results => results' = Append(results, run_history)]_vars

\* a second run starting alive from the starting values after the first run
\* hired and died
C18_Witness ==
    /\ pc = "month_loop"
    /\ Len(results) = 1
    /\ run_history = <<>>
    /\ Len(results[1]) >= 1
    /\ ~results[1][1].alive
    /\ results[1][1].headcount > sim.start_headcount
    /\ state = initial_state(sim)

----------------------------------------------------------------------------
(* C19 *)

\* strategy strings step compares with none of its literals
UnrecognizedHiring == {"Hyper"}
UnrecognizedMarketing == {"Triple"}

\* batches of at least one month and one run in which a strategy is unrecognized
AnyCalls ==
    {c \in [months : 1..MaxBatch, runs : 1..MaxRuns,
            strategy_hiring : HiringStrategies \cup UnrecognizedHiring,
            strategy_marketing : MarketingStrategies \cup UnrecognizedMarketing] :
        /\ c.months * c.runs <= MaxBatch
        /\ \/ c.strategy_hiring \in UnrecognizedHiring
           \/ c.strategy_marketing \in UnrecognizedMarketing}

InitAny ==
    /\ sim \in Sims
    /\ call \in AnyCalls
    /\ results = <<>>
    /\ run_history = <<>>
    /\ state = NoState
    /\ pc = "run_loop"
    /\ summary = NoSummary
    /\ other = NoBatch
    /\ raised = NoError
    /\ drawn = <<>>

SpecAny == InitAny /\ [][Next]_vars

\* the strategy an unrecognized string is said to stand for
as_hiring(strategy_hiring) ==
    IF strategy_hiring \in HiringStrategies THEN strategy_hiring ELSE "None"
as_marketing(strategy_marketing) ==
    IF strategy_marketing \in MarketingStrategies THEN strategy_marketing ELSE "Same"

\* C19: with an unrecognized hiring (marketing) strategy every call of step
\* returns, for the same draws, what it returns with hiring = None
\* (marketing = Same), and nothing is raised.
C19_UnrecognizedFallsThrough ==
    /\ raised = NoError
    /\ pc # "raised"
    /\ \A i \in 1..Len(drawn) : \A t \in Called(i) :
          History(i)[t] = step(sim, Before(History(i), t),
                               as_hiring(call.strategy_hiring),
                               as_marketing(call.strategy_marketing), drawn[i][t])

\* a processed batch under Hyper and Triple whose first month was survived
\* with the starting headcount and the starting burn
C19_Witness ==
    /\ pc = "processed"
    /\ call.strategy_hiring = "Hyper"
    /\ call.strategy_marketing = "Triple"
    /\ results[1][1].alive
    /\ results[1][1].headcount = sim.start_headcount
    /\ results[1][1].burn = sim.start_burn
    /\ drawn[1][1] \in Draws

----------------------------------------------------------------------------
(* C20 *)

\* the runs of a batch that end with cash > 0
solvent_runs(batch) == {i \in 1..Len(batch) : batch[i][Len(batch[i])].cash > 0}

\* C20: every recorded state is alive exactly when its cash is positive, and
\* the survival rate is the fraction of runs whose final cash is positive.
C20_AliveIffCash ==
    /\ \A h \in Recorded : \A t \in 1..Len(h) : h[t].alive <=> h[t].cash > 0
    /\ pc = "processed" =>
          /\ summary.survival_rate.num = Cardinality(solvent_runs(results))
          /\ summary.survival_rate.den = Len(results)

\* a month whose cash update comes to exactly 0 (5000 + 0 - 5000) is dead,
\* and the batch of that one run has survival rate 0
C20_Witness ==
    /\ pc = "processed"
    /\ sim = EvenSim
    /\ call.strategy_hiring = "None"
    /\ call.strategy_marketing = "Same"
    /\ Len(results) = 1
    /\ ~drawn[1][1].cost_spike
    /\ results[1][1].burn = sim.start_cash
    /\ results[1][1].revenue = 0
    /\ results[1][1].cash = 0
    /\ ~results[1][1].alive
    /\ summary.survival_rate = [num |-> 0, den |-> 1]

====
